---- MODULE Spec2Model ----
(***************************************************************************)
(* Model of tools/createClockFace.py: the command line front end (main),   *)
(* the SVG generator (create_svg) and the HTML wrapper (create_html).      *)
(*                                                                         *)
(* Text is modelled as a sequence of tokens (a token is one character or   *)
(* one atomic word), so that split(','), [:1], x[0] and string             *)
(* concatenation are computed as Python computes them.  Standard output is *)
(* the sequence `out` of printed items; each item records the template     *)
(* that was printed and the tuple of values substituted into it.  The      *)
(* floating point coordinates of ticks, dots and labels are functions of   *)
(* the loop index, which is recorded in their place.                       *)
(***************************************************************************)
EXTENDS Integers, Sequences, FiniteSets, TLC

VARIABLES pc, out, exc, flags, svg_options, html_args, ret,
          bc, hc, sc, h24, hourhand_id, sty

vars == <<pc, out, exc, flags, svg_options, html_args, ret,
          bc, hc, sc, h24, hourhand_id, sty>>

(***************************************************************************)
(* Bounds of the model and constants of the program                        *)
(***************************************************************************)
\* largest number of comma separated entries tried for --background-color
MaxBg == 4
\* range(0,60): angular positions of the tick ring
NTicks == 60
\* range(0,24): positions of the 24-hour dot ring
NDots == 24

(***************************************************************************)
(* Python values                                                           *)
(***************************************************************************)
\* an optional value: None is the empty set, a value v is {v}
None == {}
Some(v) == {v}
Val(o) == CHOOSE v \in o : TRUE

Range(s) == {s[k] : k \in 1..Len(s)}

\* str.split(sep): the pieces between separators; no separator gives [s]
RECURSIVE Split(_, _)
Split(s, sep) ==
    IF \A k \in 1..Len(s) : s[k] # sep
    THEN <<s>>
    ELSE LET k == CHOOSE k \in 1..Len(s) :
                      s[k] = sep /\ \A j \in 1..(k-1) : s[j] # sep
         IN  <<SubSeq(s, 1, k-1)>> \o Split(SubSeq(s, k+1, Len(s)), sep)

\* sep.join(list)
RECURSIVE Join(_, _)
Join(list, sep) ==
    IF Len(list) = 0 THEN <<>>
    ELSE IF Len(list) = 1 THEN list[1]
    ELSE list[1] \o <<sep>> \o Join(Tail(list), sep)

\* s[:1]
FirstChar(s) == IF Len(s) = 0 THEN <<>> ELSE <<s[1]>>

DigitChars == <<"0", "1", "2", "3", "4", "5", "6", "7", "8", "9">>

\* str(n) for a natural number n
RECURSIVE Str(_)
Str(n) == IF n < 10 THEN <<DigitChars[n + 1]>>
          ELSE Str(n \div 10) \o <<DigitChars[(n % 10) + 1]>>

\* '%s' % (b/2): true division gives a float, printed with one decimal here
HalfStr(b) == Str(b \div 2) \o <<".">> \o (IF b % 2 = 0 THEN <<"0">> ELSE <<"5">>)

\* one print(): the template printed and the values substituted into it
Item(blk, tpl, args) == [blk |-> blk, tpl |-> tpl, args |-> args]

(***************************************************************************)
(* Option values tried on the command line                                 *)
(***************************************************************************)
W_hour == <<"h", "o", "u", "r">>
W_minute == <<"m", "i", "n", "u", "t", "e">>
W_arabic == <<"a", "r", "a", "b", "i", "c">>
W_roman == <<"r", "o", "m", "a", "n">>
W_none == <<"n", "o", "n", "e">>
W_line == <<"line">>
W_dot == <<"dot">>

\* the defaults of the option parser, lines 34-66
D_server == <<"uhr.ptb.de/time">>
D_tz == <<"CET">>
D_scale == W_hour \o <<",">> \o W_minute
D_scalecolor == <<"#404040">>
D_handcolor == <<"#000000">>
D_backgroundcolor == <<"#000000", ",", "#eaeaea", ",", "#ffb2b2">>

ScaleValues == { D_scale, W_hour, W_minute, <<>>, <<",">> \o W_hour }
StyleValues == { W_line, W_dot, <<"blob">> }
DigitValues == { None, Some(<<>>), Some(W_arabic), Some(W_roman), Some(W_none),
                 Some(W_roman \o <<",", "9px">>) }
BgPalette == << <<"#111111">>, <<"#222222">>, <<"#333333">>, <<"#444444">>,
                <<"#555555">>, <<"#666666">> >>
\* the first n palette colours joined by commas, n = 0 .. MaxBg
BgValues == { Join(SubSeq(BgPalette, 1, n), ",") : n \in 0..MaxBg }
TzValues == { D_tz, <<"UTC", ",", "3600">>, <<"UTC", ",">>,
              <<",", "3600">>, <<>>, <<"UTC", ",", "3600", ",", "7200">> }
ServerValues == { D_server, <<"ws://", "localhost", "/%s">> }
RadiusValues == { None, Some(40) }

(***************************************************************************)
(* Keys of the svg_options dictionary                                      *)
(***************************************************************************)
K_hScale == <<"h", "Scale">>
K_mScale == <<"m", "Scale">>
K_scaleColor == <<"scaleColor">>
K_backgroundColor == <<"backgroundColor">>
K_handColor == <<"handColor">>
K_scaleStyle == <<"scaleStyle">>
K_scaleRadius == <<"scaleRadius">>
K_24hourHand == <<"24hourHand">>
K_digit == <<"digit">>
K_prefix == <<"prefix">>

\* dict.get(key, default)
Get(d, key, default) == IF key \in DOMAIN d THEN d[key] ELSE default

\* bool(v) of an optional string: None and '' are false
Truthy(o) == o # None /\ Val(o) # <<>>

(***************************************************************************)
(* main, lines 70-83: the svg_options dictionary built from the options    *)
(***************************************************************************)
ScaleKeys(scale) ==
    { <<x[1], "Scale">> : x \in {y \in Range(Split(scale, ",")) : Len(y) > 0} }

ScaleRadius(scaleradius, scalestyle) ==
    IF scaleradius = None
    THEN (IF scalestyle = W_line THEN 50 ELSE 46)
    ELSE Val(scaleradius)

SvgOptions(o) ==
    [k \in ScaleKeys(o.scale) |-> TRUE]
    @@ (K_scaleColor :> o.scalecolor)
    @@ (K_backgroundColor :> Split(o.backgroundcolor, ","))
    @@ (K_handColor :> o.handcolor)
    @@ (K_scaleStyle :> o.scalestyle)
    @@ (K_scaleRadius :> ScaleRadius(o.scaleradius, o.scalestyle))
    @@ (K_24hourHand :> o.twentyfour)
    @@ (K_digit :> o.digit)

\* Command lines without --html: every combination of the SVG options.
SvgCommandLines ==
    [html : {FALSE}, svg : BOOLEAN, server : {D_server}, tz : {D_tz},
     scale : ScaleValues, scalecolor : {D_scalecolor},
     handcolor : {D_handcolor}, backgroundcolor : BgValues,
     scalestyle : StyleValues, scaleradius : RadiusValues,
     digit : DigitValues, twentyfour : BOOLEAN]

\* Command lines with --html: every --tz and --server value, with and
\* without --svg and --24; create_html hands svg_options to create_svg
\* untouched, so the SVG options are varied less here.
HtmlCommandLines ==
    [html : {TRUE}, svg : BOOLEAN, server : ServerValues, tz : TzValues,
     scale : {D_scale, <<>>}, scalecolor : {D_scalecolor},
     handcolor : {D_handcolor}, backgroundcolor : {D_backgroundcolor},
     scalestyle : {W_line}, scaleradius : {None},
     digit : {None, Some(W_arabic)}, twentyfour : BOOLEAN]

Options == SvgCommandLines \cup HtmlCommandLines

NoArgs == [tz |-> <<>>, server |-> <<>>]

Init ==
    /\ pc = "main"
    /\ out = <<>>
    /\ exc = "none"
    /\ flags = [html |-> FALSE, svg |-> FALSE]
    /\ svg_options = <<>>
    /\ html_args = NoArgs
    /\ ret = "main"
    /\ bc = <<>>
    /\ hc = <<>>
    /\ sc = <<>>
    /\ h24 = FALSE
    /\ hourhand_id = <<>>
    /\ sty = None

\* a variant of Dispatch that falls back to the SVG instead of the hint
Dispatch_DefaultSvg(o) == IF o.html THEN "create_html" ELSE "create_svg"

\* lines 84-90: the output mode chosen from the flags
Dispatch(o) ==
    IF o.html THEN "create_html"
    ELSE IF o.svg THEN "create_svg"
    ELSE "usage"

Main ==
    /\ pc = "main"
    /\ \E o \in Options :
          /\ flags' = [html |-> o.html, svg |-> o.svg]
          /\ svg_options' = SvgOptions(o)
          /\ LET d == Dispatch(o) IN
             /\ html_args' = IF d = "create_html"
                             THEN [tz |-> o.tz, server |-> o.server]
                             ELSE NoArgs
             /\ pc' = IF d = "usage" THEN "done" ELSE d
             /\ out' = IF d = "usage"
                       THEN <<Item("usage", "USAGE_HINT", <<>>)>>
                       ELSE out
    /\ UNCHANGED <<exc, ret, bc, hc, sc, h24, hourhand_id, sty>>

(***************************************************************************)
(* create_html, lines 336-346                                              *)
(***************************************************************************)
\* a variant of HtmlConfValue that takes the offset from the first field
HtmlConfValue_FirstField(tzarg, opts) ==
    LET tz == Split(tzarg, ",")
        x  == IF Len(tz) > 1 THEN <<"offset:">> \o tz[1] ELSE <<>>
    IN  IF Get(opts, K_24hourHand, FALSE)
        THEN Join(<< <<"show:21">>, x >>, ",")
        ELSE x

\* lines 337-343: the text put between the braces of the timezone entry
HtmlConfValue(tzarg, opts) ==
    LET tz == Split(tzarg, ",")
        x  == IF Len(tz) > 1 THEN <<"offset:">> \o tz[2] ELSE <<>>
    IN  IF Get(opts, K_24hourHand, FALSE)
        THEN Join(<< <<"show:21">>, x >>, ",")
        ELSE x

\* line 344: the tuple substituted into START_HTML
HtmlStartArgs(tzarg, server, opts) ==
    << Split(tzarg, ",")[1], HtmlConfValue(tzarg, opts), server >>

CreateHtml ==
    /\ pc = "create_html"
    /\ out' = Append(out, Item("htmlStart", "START_HTML",
                     HtmlStartArgs(html_args.tz, html_args.server, svg_options)))
    /\ ret' = "create_html"
    /\ pc' = "create_svg"
    /\ UNCHANGED <<exc, flags, svg_options, html_args, bc, hc, sc, h24,
                   hourhand_id, sty>>

HtmlEnd ==
    /\ pc = "html_end"
    /\ out' = Append(out, Item("htmlEnd", "END_HTML", <<>>))
    /\ pc' = "done"
    /\ UNCHANGED <<exc, flags, svg_options, html_args, ret, bc, hc, sc, h24,
                   hourhand_id, sty>>

(***************************************************************************)
(* create_svg, lines 209-334                                               *)
(***************************************************************************)
DefaultBackground == << <<"#000000">>, <<"#eaeaea">>, <<"#ffb2b2">> >>

\* a variant of BackgroundColors that fills a short list up with defaults
BackgroundColors_Padded(opts) ==
    LET list == Get(opts, K_backgroundColor, <<>>) IN
    [k \in 1..(IF Len(list) > 3 THEN Len(list) ELSE 3) |->
        IF k <= Len(list) THEN list[k] ELSE DefaultBackground[k]]

\* lines 212-216: bc[2] raises IndexError on a short list, KeyError without one
BackgroundColors(opts) ==
    IF K_backgroundColor \in DOMAIN opts /\ Len(opts[K_backgroundColor]) >= 3
    THEN opts[K_backgroundColor]
    ELSE DefaultBackground

\* a variant of HourHandId that ignores the 24-hour mode
HourHandId_Always12(prefix, is24) == prefix \o <<"HourHand">>

\* lines 226-230
HourHandId(prefix, is24) ==
    IF is24 THEN prefix \o <<"Hour24Hand">> ELSE prefix \o <<"HourHand">>

\* lines 231-233
hshadow == FALSE
mshadow == FALSE
sshadow == FALSE

SvgStart ==
    /\ pc = "create_svg"
    /\ out' = Append(out, Item("svgOpen", "START_SVG", <<>>))
    /\ bc' = BackgroundColors(svg_options)
    /\ hc' = Get(svg_options, K_handColor, <<"#000000">>)
    /\ sc' = Get(svg_options, K_scaleColor, <<"#404040">>)
    /\ h24' = Get(svg_options, K_24hourHand, FALSE)
    /\ hourhand_id' = HourHandId(Get(svg_options, K_prefix, <<"ptb">>),
                                 Get(svg_options, K_24hourHand, FALSE))
    /\ pc' = "defs"
    /\ UNCHANGED <<exc, flags, svg_options, html_args, ret, sty>>

\* lines 235-240
DefsItems ==
    IF hshadow \/ mshadow
    THEN <<Item("defs", "DEFS_OPEN", <<>>)>>
         \o (IF hshadow THEN <<Item("defs", "SHADOW_DEF", << <<"Hour">>, <<"1">> >>)>> ELSE <<>>)
         \o (IF mshadow THEN <<Item("defs", "SHADOW_DEF", << <<"Minute">>, <<"1">> >>)>> ELSE <<>>)
         \o (IF sshadow THEN <<Item("defs", "SHADOW_DEF", << <<"Second">>, <<"1">> >>)>> ELSE <<>>)
         \o <<Item("defs", "DEFS_CLOSE", <<>>)>>
    ELSE <<>>

FilterDefs ==
    /\ pc = "defs"
    /\ out' = out \o DefsItems
    /\ pc' = "background"
    /\ UNCHANGED <<exc, flags, svg_options, html_args, ret, bc, hc, sc, h24,
                   hourhand_id, sty>>

\* line 242
Background ==
    /\ pc = "background"
    /\ out' = Append(out, Item("background", "CLOCK_BACKGROUND",
                               <<bc[1], bc[2], bc[3]>>))
    /\ pc' = "axis"
    /\ UNCHANGED <<exc, flags, svg_options, html_args, ret, bc, hc, sc, h24,
                   hourhand_id, sty>>

\* line 244
Axis ==
    /\ pc = "axis"
    /\ out' = Append(out, Item("axis", "CLOCK_AXIS", <<hc>>))
    /\ pc' = "ticks"
    /\ UNCHANGED <<exc, flags, svg_options, html_args, ret, bc, hc, sc, h24,
                   hourhand_id, sty>>

RECURSIVE Flatten(_)
Flatten(ss) == IF Len(ss) = 0 THEN <<>> ELSE Head(ss) \o Flatten(Tail(ss))

\* a variant of TickLB that draws the long marks at every tenth index
TickLB_EveryTen(i, opts, is24) ==
    IF (i % 10) = 0 /\ K_hScale \in DOMAIN opts /\ ~is24
    THEN [l |-> IF K_mScale \in DOMAIN opts THEN 9 ELSE 5, b |-> 5]
    ELSE IF K_mScale \in DOMAIN opts
    THEN [l |-> 5, b |-> 3]
    ELSE [l |-> 0, b |-> 0]

\* lines 254-264: length l and stroke width b of the mark at index i
TickLB(i, opts, is24) ==
    IF (i % 5) = 0 /\ K_hScale \in DOMAIN opts /\ ~is24
    THEN [l |-> IF K_mScale \in DOMAIN opts THEN 9 ELSE 5, b |-> 5]
    ELSE IF K_mScale \in DOMAIN opts
    THEN [l |-> 5, b |-> 3]
    ELSE [l |-> 0, b |-> 0]

\* lines 265-269: what one pass of the tick loop prints
TickPrint(i, opts, is24, style, color) ==
    LET lb == TickLB(i, opts, is24) IN
    IF lb.l > 0 /\ lb.b > 0
    THEN IF style = W_line
         THEN <<Item("ticks", "CLOCK_MIN", <<Str(i), color, Str(lb.b)>>)>>
         ELSE IF style = W_dot
         THEN <<Item("ticks", "TICK_DOT", <<Str(i), HalfStr(lb.b), color>>)>>
         ELSE <<>>
    ELSE <<>>

\* lines 252-269: for i in range(0,60)
TickLoop(opts, is24, style, color) ==
    Flatten([k \in 1..NTicks |-> TickPrint(k - 1, opts, is24, style, color)])

\* lines 246-269
Ticks ==
    /\ pc = "ticks"
    /\ IF K_hScale \in DOMAIN svg_options \/ K_mScale \in DOMAIN svg_options
       THEN LET style == Get(svg_options, K_scaleStyle, W_line) IN
            /\ sty' = Some(style)
            /\ out' = out \o TickLoop(svg_options, h24, style, sc)
            /\ pc' = "dots24"
       ELSE /\ pc' = "digits"
            /\ UNCHANGED <<sty, out>>
    /\ UNCHANGED <<exc, flags, svg_options, html_args, ret, bc, hc, sc, h24,
                   hourhand_id>>

\* lines 272-281: for i in range(0,24)
DotLoop(opts, color) ==
    LET b == IF K_digit \in DOMAIN opts THEN 5 ELSE 8 IN
    [k \in 1..NDots |-> Item("dots24", "DOT_24", <<Str(k - 1), HalfStr(b), color>>)]

\* lines 270-281
Dots24 ==
    /\ pc = "dots24"
    /\ out' = IF h24 /\ K_hScale \in DOMAIN svg_options
              THEN out \o DotLoop(svg_options, sc)
              ELSE out
    /\ pc' = "digits"
    /\ UNCHANGED <<exc, flags, svg_options, html_args, ret, bc, hc, sc, h24,
                   hourhand_id, sty>>

\* lines 93-95; ROMAN[i] of the program is ROMAN[i + 1] here
ROMAN ==
    << <<"X","I","I">>, <<"I">>, <<"I","I">>, <<"I","I","I">>, <<"I","V">>,
       <<"V">>, <<"V","I">>, <<"V","I","I">>, <<"V","I","I","I">>,
       <<"I","X">>, <<"X">>, <<"X","I">>,
       <<"X","I","I">>, <<"X","I","I","I">>, <<"X","I","V">>, <<"X","V">>,
       <<"X","V","I">>, <<"X","V","I","I">>, <<"X","V","I","I","I">>,
       <<"X","I","X">>, <<"X","X">>,
       <<"X","X","I">>, <<"X","X","I","I">>, <<"X","X","I","I","I">>,
       <<"X","I","V">> >>

\* a variant of DigitText that reads the table as if it began at I
DigitText_TableFromOne(typ, i) == IF typ = <<"r">> THEN ROMAN[i] ELSE Str(i)

\* line 300
DigitText(typ, i) == IF typ = <<"r">> THEN ROMAN[i + 1] ELSE Str(i)

\* lines 291-296: the number m of labels
DigitCount(is24) == IF is24 THEN 24 ELSE 12

\* lines 284-290
DigitOpen(opts, is24, color) ==
    LET text_options == Split(Val(Get(opts, K_digit, Some(<<"a">>))), ",")
        text_size == IF Len(text_options) > 1 THEN text_options[2]
                     ELSE IF is24 THEN <<"12px">> ELSE <<"20px">>
    IN  Item("digits", "DIGIT_GROUP_OPEN", <<text_size, color>>)

\* lines 297-301: for i in range(1,m+1)
DigitLoop(opts, is24) ==
    LET text_options == Split(Val(Get(opts, K_digit, Some(<<"a">>))), ",")
        typ == FirstChar(text_options[1])
    IN  [i \in 1..DigitCount(is24) |->
            Item("digits", "DIGIT_TEXT", <<Str(i), DigitText(typ, i)>>)]

\* lines 283-302; line 295 reads sty, which is unbound when no scale was
\* drawn: the exception ends the program where it is raised
Digits ==
    /\ pc = "digits" /\ exc = "none"
    /\ IF Truthy(Get(svg_options, K_digit, None))
       THEN IF ~h24 /\ sty = None
            THEN /\ out' = Append(out, DigitOpen(svg_options, h24, sc))
                 /\ exc' = "NameError"
                 /\ pc' = pc
            ELSE /\ out' = Append(out, DigitOpen(svg_options, h24, sc))
                             \o DigitLoop(svg_options, h24)
                             \o <<Item("digits", "DIGIT_GROUP_CLOSE", <<>>)>>
                 /\ pc' = "digital"
                 /\ UNCHANGED exc
       ELSE /\ pc' = "digital"
            /\ UNCHANGED <<out, exc>>
    /\ UNCHANGED <<flags, svg_options, html_args, ret, bc, hc, sc, h24,
                   hourhand_id, sty>>

\* lines 304-311; line 305 reads sty
Digital ==
    /\ pc = "digital" /\ exc = "none"
    /\ IF Truthy(Get(svg_options, K_digit, None))
       THEN IF sty = None
            THEN /\ exc' = "NameError"
                 /\ pc' = pc
                 /\ UNCHANGED out
            ELSE /\ out' = Append(out, Item("digital", "CLOCK_DIGITAL",
                                IF Val(sty) = W_line
                                THEN <<sc, <<"25">>, <<"29.5">>, <<"37">>, <<"42">> >>
                                ELSE <<sc, <<"22">>, <<"26.5">>, <<"34">>, <<"39">> >>))
                 /\ pc' = "notice"
                 /\ UNCHANGED exc
       ELSE /\ out' = Append(out, Item("digital", "CLOCK_DIGITAL",
                                <<sc, <<"20">>, <<"24.5">>, <<"32">>, <<"37">> >>))
            /\ pc' = "notice"
            /\ UNCHANGED exc
    /\ UNCHANGED <<flags, svg_options, html_args, ret, bc, hc, sc, h24,
                   hourhand_id, sty>>

\* a variant of Notice that prints the deviation group before the notice
Notice_AfterDeviation ==
    /\ pc = "notice"
    /\ out' = out \o <<Item("deviation", "DEVIATION", <<sc, sc>>),
                       Item("notice", "NOTICE", <<>>)>>
    /\ pc' = "hour_hand"
    /\ UNCHANGED <<exc, flags, svg_options, html_args, ret, bc, hc, sc, h24,
                   hourhand_id, sty>>

\* line 313
Notice ==
    /\ pc = "notice"
    /\ out' = Append(out, Item("notice", "NOTICE", <<>>))
    /\ pc' = "deviation"
    /\ UNCHANGED <<exc, flags, svg_options, html_args, ret, bc, hc, sc, h24,
                   hourhand_id, sty>>

\* lines 314-323
Deviation ==
    /\ pc = "deviation"
    /\ out' = Append(out, Item("deviation", "DEVIATION", <<sc, sc>>))
    /\ pc' = "hour_hand"
    /\ UNCHANGED <<exc, flags, svg_options, html_args, ret, bc, hc, sc, h24,
                   hourhand_id, sty>>

\* a hand, wrapped in its shadow group when the shadow is on
Wrapped(blk, shadow, item) ==
    (IF shadow THEN <<Item(blk, "SHADOW_GROUP_OPEN", <<>>)>> ELSE <<>>)
    \o <<item>>
    \o (IF shadow THEN <<Item(blk, "SHADOW_GROUP_CLOSE", <<>>)>> ELSE <<>>)

\* lines 325-327
HourHand ==
    /\ pc = "hour_hand"
    /\ out' = out \o Wrapped("hourHand", hshadow,
                             Item("hourHand", "HOUR_HAND", <<hourhand_id, hc>>))
    /\ pc' = "minute_hand"
    /\ UNCHANGED <<exc, flags, svg_options, html_args, ret, bc, hc, sc, h24,
                   hourhand_id, sty>>

\* lines 328-330
MinuteHand ==
    /\ pc = "minute_hand"
    /\ out' = out \o Wrapped("minuteHand", mshadow,
                             Item("minuteHand", "MINUTE_HAND", <<hc>>))
    /\ pc' = "second_hand"
    /\ UNCHANGED <<exc, flags, svg_options, html_args, ret, bc, hc, sc, h24,
                   hourhand_id, sty>>

\* lines 331-333
SecondHand ==
    /\ pc = "second_hand"
    /\ out' = out \o Wrapped("secondHand", sshadow,
                             Item("secondHand", "SECOND_HAND", << <<"red">> >>))
    /\ pc' = "svg_end"
    /\ UNCHANGED <<exc, flags, svg_options, html_args, ret, bc, hc, sc, h24,
                   hourhand_id, sty>>

\* line 334, then the return to the caller (line 346 or the end of main)
SvgEnd ==
    /\ pc = "svg_end"
    /\ out' = Append(out, Item("svgClose", "END_SVG", <<>>))
    /\ pc' = IF ret = "create_html" THEN "html_end" ELSE "done"
    /\ UNCHANGED <<exc, flags, svg_options, html_args, ret, bc, hc, sc, h24,
                   hourhand_id, sty>>

Next ==
    \/ Main
    \/ CreateHtml
    \/ SvgStart
    \/ FilterDefs
    \/ Background
    \/ Axis
    \/ Ticks
    \/ Dots24
    \/ Digits
    \/ Digital
    \/ Notice
    \/ Deviation
    \/ HourHand
    \/ MinuteHand
    \/ SecondHand
    \/ SvgEnd
    \/ HtmlEnd

Spec == Init /\ [][Next]_vars

(***************************************************************************)
(* The element structure of the templates, lines 166-200 and the inline    *)
(* literals of create_svg: the tags of each printed item in document order *)
(***************************************************************************)
Open(el) == [kind |-> "open", el |-> el]
Close(el) == [kind |-> "close", el |-> el]
Empty(el) == [kind |-> "empty", el |-> el]
OpenClose(el) == <<Open(el), Close(el)>>

TemplateTags(tpl) ==
    CASE tpl = "START_SVG" -> <<Open("svg"), Open("g")>>
      [] tpl = "END_SVG" -> <<Close("g"), Close("svg")>>
      [] tpl = "DEFS_OPEN" -> <<Open("defs")>>
      [] tpl = "DEFS_CLOSE" -> <<Close("defs")>>
      [] tpl = "SHADOW_DEF" -> <<Open("filter"), Empty("feDropShadow"), Close("filter")>>
      [] tpl = "CLOCK_BACKGROUND" -> <<Empty("circle")>>
      [] tpl = "CLOCK_AXIS" -> <<Empty("circle")>>
      [] tpl = "CLOCK_MIN" -> <<Empty("line")>>
      [] tpl = "TICK_DOT" -> <<Empty("circle")>>
      [] tpl = "DOT_24" -> <<Empty("circle")>>
      [] tpl = "DIGIT_GROUP_OPEN" -> <<Open("g")>>
      [] tpl = "DIGIT_TEXT" -> OpenClose("text")
      [] tpl = "DIGIT_GROUP_CLOSE" -> <<Close("g")>>
      [] tpl = "CLOCK_DIGITAL" ->
            <<Open("g")>> \o OpenClose("text") \o OpenClose("text")
            \o OpenClose("text") \o OpenClose("text") \o <<Close("g")>>
      [] tpl = "NOTICE" -> OpenClose("text")
      [] tpl = "DEVIATION" ->
            <<Open("g")>> \o OpenClose("title") \o OpenClose("text")
            \o <<Open("g"), Open("text"), Empty("tspan"), Empty("tspan"),
                 Close("text"), Close("g"), Close("g")>>
      [] tpl = "HOUR_HAND" -> <<Open("g"), Empty("line"), Close("g")>>
      [] tpl = "MINUTE_HAND" -> <<Open("g"), Empty("line"), Close("g")>>
      [] tpl = "SECOND_HAND" -> <<Open("g"), Empty("line"), Empty("circle"), Close("g")>>
      [] tpl = "SHADOW_GROUP_OPEN" -> <<Open("g")>>
      [] tpl = "SHADOW_GROUP_CLOSE" -> <<Close("g")>>
      [] OTHER -> <<>>

\* the blocks create_svg prints, numbered in the order of the source text
BlockRank(blk) ==
    CASE blk = "svgOpen" -> 1
      [] blk = "defs" -> 2
      [] blk = "background" -> 3
      [] blk = "axis" -> 4
      [] blk = "ticks" -> 5
      [] blk = "dots24" -> 6
      [] blk = "digits" -> 7
      [] blk = "digital" -> 8
      [] blk = "notice" -> 9
      [] blk = "deviation" -> 10
      [] blk = "hourHand" -> 11
      [] blk = "minuteHand" -> 12
      [] blk = "secondHand" -> 13
      [] blk = "svgClose" -> 14
      [] OTHER -> 0

(***************************************************************************)
(* Observations of the output                                              *)
(***************************************************************************)
IsSvgItem(it) == BlockRank(it.blk) > 0
SvgItems == SelectSeq(out, IsSvgItem)
ItemsOf(blk) == SelectSeq(out, LAMBDA it : it.blk = blk)
ItemsOfTpl(tpl) == SelectSeq(out, LAMBDA it : it.tpl = tpl)
Terminated == pc = "done" \/ exc # "none"
MarkupMode == flags.html \/ flags.svg

PcRank(p) ==
    CASE p = "main" -> 0
      [] p = "create_html" -> 1
      [] p = "create_svg" -> 2
      [] p = "defs" -> 3
      [] p = "background" -> 4
      [] p = "axis" -> 5
      [] p = "ticks" -> 6
      [] p = "dots24" -> 7
      [] p = "digits" -> 8
      [] p = "digital" -> 9
      [] p = "notice" -> 10
      [] p = "deviation" -> 11
      [] p = "hour_hand" -> 12
      [] p = "minute_hand" -> 13
      [] p = "second_hand" -> 14
      [] p = "svg_end" -> 15
      [] p = "html_end" -> 16
      [] OTHER -> 17

\* an output mode was chosen and the run has gone past program position p
Past(p) == MarkupMode /\ PcRank(pc) > PcRank(p)

HasScale(c) == <<c, "Scale">> \in DOMAIN svg_options
DigitOpt == IF K_digit \in DOMAIN svg_options THEN svg_options[K_digit] ELSE None
\* the style word of --digit: the text before its first comma
StyleWord == IF DigitOpt = None THEN <<>> ELSE Split(Val(DigitOpt), ",")[1]

\* a tag sequence is one well nested document: a single root, every element
\* closed by its own close tag in reverse order, nothing after the root
RECURSIVE Nested(_, _, _)
Nested(tags, stack, roots) ==
    IF Len(tags) = 0 THEN stack = <<>> /\ roots = 1
    ELSE LET t == Head(tags) IN
         IF t.kind = "open"
         THEN (stack # <<>> \/ roots = 0)
              /\ Nested(Tail(tags), <<t.el>> \o stack, roots)
         ELSE IF t.kind = "empty"
         THEN stack # <<>> /\ Nested(Tail(tags), stack, roots)
         ELSE /\ stack # <<>>
              /\ Head(stack) = t.el
              /\ Nested(Tail(tags), Tail(stack),
                        IF Len(stack) = 1 THEN roots + 1 ELSE roots)

\* a printed item that closes every element it opens, in reverse order, and
\* closes no other: inside an open element it leaves the nesting as it was
SelfContained(it) ==
    Nested(<<Open("#")>> \o TemplateTags(it.tpl) \o <<Close("#")>>, <<>>, 0)

\* the SVG printed so far is one well nested document: it starts and ends
\* with items that open and close the root, and the tags of the items that
\* are not self contained nest
WellFormedSvg ==
    LET s == SvgItems
        frame == SelectSeq(s, LAMBDA it : ~SelfContained(it))
    IN  /\ Len(s) > 0
        /\ ~SelfContained(s[1])
        /\ ~SelfContained(s[Len(s)])
        /\ Nested(Flatten([k \in 1..Len(frame) |-> TemplateTags(frame[k].tpl)]),
                  <<>>, 0)

(***************************************************************************)
(* Claims                                                                  *)
(***************************************************************************)
Count(blk) == Len(ItemsOf(blk))
FirstIndex(tpl) == CHOOSE k \in 1..Len(out) :
                      out[k].tpl = tpl /\ \A j \in 1..(k-1) : out[j].tpl # tpl
Printed(tpl) == \E k \in 1..Len(out) : out[k].tpl = tpl

\* C1: the blocks of create_svg appear in the fixed order of the list (open
\* tag, shadow definitions, background, axis, ticks, 24-hour dots, digits,
\* digital readout, notice, deviation, hour, minute, second hand, close tag):
\* no item is ever printed before an item of an earlier block, the single
\* blocks are printed at most once, no tick, dot or label index is printed
\* twice, and shadow definitions appear only if a hand has a shadow.
C1_BlockOrder ==
    LET s == SvgItems IN
    /\ \A i \in 1..(Len(s) - 1) :
          /\ BlockRank(s[i].blk) <= BlockRank(s[i+1].blk)
          /\ s[i].blk = s[i+1].blk =>
                /\ s[i].blk \notin {"svgOpen", "background", "axis", "digital",
                                    "notice", "deviation", "svgClose"}
                /\ s[i].tpl # s[i+1].tpl
                      => s[i].tpl \in {"DIGIT_GROUP_OPEN", "DIGIT_TEXT",
                                       "DEFS_OPEN", "SHADOW_DEF",
                                       "SHADOW_GROUP_OPEN", "HOUR_HAND",
                                       "MINUTE_HAND", "SECOND_HAND"}
                /\ s[i].tpl = s[i+1].tpl => s[i].args # s[i+1].args
    /\ \A t \in {"HOUR_HAND", "MINUTE_HAND", "SECOND_HAND", "DIGIT_GROUP_OPEN",
                 "DIGIT_GROUP_CLOSE"} : Len(ItemsOfTpl(t)) <= 1
    /\ Count("defs") > 0 => (hshadow \/ mshadow \/ sshadow)

\* a finished run in which every optional block of the present build was printed
C1_Witness ==
    /\ pc = "done"
    /\ Count("ticks") > 0 /\ Count("dots24") > 0 /\ Count("digits") > 0
    /\ Count("svgOpen") = 1 /\ Count("svgClose") = 1 /\ Count("secondHand") = 1

\* C2: for a digit style that is neither arabic nor roman (such as 'none')
\* no digit label is printed; labels are printed only for arabic and roman.
\* (That no error is raised is the subject of C4.)
C2_NoLabelsForOtherStyles ==
    (DigitOpt # None /\ StyleWord \notin {W_arabic, W_roman})
       => ~Printed("DIGIT_TEXT")

\* the label printed last, at angle 2*pi: the 12 o'clock position
TopLabel == LET ls == ItemsOfTpl("DIGIT_TEXT") IN ls[Len(ls)]
LabelsDone == Printed("DIGIT_GROUP_CLOSE")

\* C3 as stated: in 12-hour and in 24-hour mode alike the label at the 12
\* o'clock position reads XII for style roman and 12 for style arabic.
C3_TopLabelAsStated ==
    LabelsDone =>
       /\ StyleWord = W_roman => TopLabel.args[2] = <<"X", "I", "I">>
       /\ StyleWord = W_arabic => TopLabel.args[2] = <<"1", "2">>

\* C3 amended: whenever the labels are printed, in 12-hour mode the label at
\* the last index (12, the top of the dial) reads XII for roman and 12 for
\* arabic; in 24-hour mode the last index is 24 and the label reads 24 for
\* arabic and XIV, the table's entry 24, for roman.
C3_TopLabel ==
    LabelsDone =>
       /\ ~h24 =>
            /\ TopLabel.args[1] = <<"1", "2">>
            /\ Len(ItemsOfTpl("DIGIT_TEXT")) = 12
            /\ StyleWord = W_roman => TopLabel.args[2] = <<"X", "I", "I">>
            /\ StyleWord = W_arabic => TopLabel.args[2] = <<"1", "2">>
       /\ h24 =>
            /\ TopLabel.args[1] = <<"2", "4">>
            /\ Len(ItemsOfTpl("DIGIT_TEXT")) = 24
            /\ StyleWord = W_roman => TopLabel.args[2] = <<"X", "I", "V">>
            /\ StyleWord = W_arabic => TopLabel.args[2] = <<"2", "4">>

C3_Witness ==
    /\ pc = "done" /\ LabelsDone /\ ~h24 /\ StyleWord = W_roman
    /\ TopLabel.args = << <<"1", "2">>, <<"X", "I", "I">> >>

\* C4: generation has no fatal error path: once an output mode is chosen no
\* exception is raised and a finished run has printed the SVG close tag,
\* also when both scales are disabled.
C4_NoFatalError ==
    /\ exc = "none"
    /\ (Terminated /\ MarkupMode) => Printed("END_SVG")

\* C5: with both scales, 12-hour mode and style 'line' the tick loop prints
\* exactly 60 tick lines, the k-th for index k-1, of stroke width 5 where the
\* index is divisible by 5 and of width 3 elsewhere.
C5_SixtyTicks ==
    (Past("ticks") /\ HasScale("h") /\ HasScale("m") /\ ~h24
        /\ svg_options[K_scaleStyle] = W_line)
       => LET ts == ItemsOf("ticks") IN
          /\ Len(ts) = 60
          /\ \A k \in 1..Len(ts) :
                /\ ts[k].tpl = "CLOCK_MIN"
                /\ ts[k].args[1] = Str(k - 1)
                /\ ts[k].args[3] = IF (k - 1) % 5 = 0 THEN <<"5">> ELSE <<"3">>

C5_Witness ==
    /\ pc = "done" /\ HasScale("h") /\ HasScale("m") /\ ~h24
    /\ svg_options[K_scaleStyle] = W_line
    /\ Count("ticks") = 60
    /\ ItemsOf("ticks")[6].args[3] = <<"5">>
    /\ ItemsOf("ticks")[7].args[3] = <<"3">>

HourOnly24 ==
    /\ K_24hourHand \in DOMAIN svg_options /\ svg_options[K_24hourHand]
    /\ HasScale("h") /\ ~HasScale("m")

\* C6 as stated: in 24-hour mode with only the hour scale the output holds
\* the ring of 24 dots in addition to the ticks of the 60-position ring,
\* which are still present, and the hour hand's id is ptbHour24Hand.
C6_RingAsStated ==
    (pc = "done" /\ HourOnly24) =>
       /\ Count("dots24") = 24
       /\ Count("ticks") > 0
       /\ ItemsOfTpl("HOUR_HAND")[1].args[1] = <<"ptb", "Hour24Hand">>

\* C6 amended: in 24-hour mode with only the hour scale the run finishes,
\* the output holds the ring of exactly 24 dots and no tick of the
\* 60-position ring (the hour ticks are suppressed in 24-hour mode), and
\* the hour hand's id is ptbHour24Hand.
C6_Ring24 ==
    (MarkupMode /\ HourOnly24) =>
       /\ exc = "none"
       /\ Count("ticks") = 0
       /\ Past("dots24") =>
             /\ Count("dots24") = 24
             /\ \A k \in 1..24 : ItemsOf("dots24")[k].args[1] = Str(k - 1)
       /\ Past("hour_hand") =>
             ItemsOfTpl("HOUR_HAND")[1].args[1] = <<"ptb", "Hour24Hand">>

C6_Witness ==
    /\ pc = "done" /\ HourOnly24 /\ Count("dots24") = 24
    /\ ItemsOfTpl("HOUR_HAND")[1].args[1] = <<"ptb", "Hour24Hand">>

\* C7: the background circle is always printed (its step never raises):
\* with fewer than 3 entries in the colour list its colours are the fixed
\* triple #000000, #eaeaea, #ffb2b2, with 3 or more they are the first three
\* entries in order; supplied entries and defaults are never mixed.
C7_Background ==
    Past("background") =>
       LET list == svg_options[K_backgroundColor]
           bg == ItemsOf("background")
       IN  /\ Len(bg) = 1
           /\ bg[1].tpl = "CLOCK_BACKGROUND"
           /\ Len(list) < 3 =>
                 bg[1].args = << <<"#000000">>, <<"#eaeaea">>, <<"#ffb2b2">> >>
           /\ Len(list) >= 3 => bg[1].args = <<list[1], list[2], list[3]>>

C7_Witness ==
    /\ pc = "done" /\ Count("background") = 1
    /\ Len(svg_options[K_backgroundColor]) = 2
    /\ svg_options[K_backgroundColor][1] = <<"#111111">>
    /\ ItemsOf("background")[1].args
          = << <<"#000000">>, <<"#eaeaea">>, <<"#ffb2b2">> >>

\* C8: for every configuration that produces markup the SVG printed by a
\* run that has ended is one well nested document: a single root, every
\* opened element closed in reverse order, nothing after the root.
C8_WellFormed ==
    (Terminated /\ Len(SvgItems) > 0) => WellFormedSvg

\* C9: one outcome per invocation: --html alone prints the page around the
\* SVG, --svg alone the bare SVG, neither flag the usage hint and no markup;
\* the SVG is never printed twice and hint and markup never both appear.
C9_OneOutcome ==
    /\ Len(ItemsOfTpl("START_SVG")) <= 1
    /\ Len(ItemsOfTpl("START_HTML")) <= 1
    /\ ~(Printed("USAGE_HINT") /\ (Printed("START_SVG") \/ Printed("START_HTML")))
    /\ (pc = "done" /\ flags.html /\ ~flags.svg) =>
          /\ out[1].tpl = "START_HTML"
          /\ out[2].tpl = "START_SVG"
          /\ out[Len(out) - 1].tpl = "END_SVG"
          /\ out[Len(out)].tpl = "END_HTML"
    /\ (pc = "done" /\ flags.svg /\ ~flags.html) =>
          /\ out[1].tpl = "START_SVG"
          /\ out[Len(out)].tpl = "END_SVG"
          /\ ~Printed("START_HTML") /\ ~Printed("END_HTML")
    /\ (pc # "main" /\ ~flags.svg /\ ~flags.html) =>
          /\ pc = "done"
          /\ Len(out) = 1 /\ out[1].tpl = "USAGE_HINT"
    /\ (pc # "main" /\ ~flags.html) => ~Printed("START_HTML")

C9_Witness ==
    /\ pc = "done" /\ flags.html /\ ~flags.svg
    /\ out[1].tpl = "START_HTML" /\ out[Len(out)].tpl = "END_HTML"

\* the text of s before its first comma, all of s if it has none
RECURSIVE BeforeComma(_)
BeforeComma(s) ==
    IF Len(s) = 0 \/ Head(s) = "," THEN <<>>
    ELSE <<Head(s)>> \o BeforeComma(Tail(s))
Commas(s) == Cardinality({k \in 1..Len(s) : s[k] = ","})
IsSuffix(t, s) == Len(t) <= Len(s) /\ SubSeq(s, Len(s) - Len(t) + 1, Len(s)) = t

\* C10: in HTML mode the START_HTML block is printed with the text before
\* the first comma of --tz as timezone key; the value holds offset:OFFSET
\* exactly when a comma suffix was given, OFFSET being the text after the
\* comma; the server string is substituted unchanged; the HTML start comes
\* before the SVG, which comes before the HTML end.
C10_HtmlConf ==
    Printed("START_HTML") =>
       LET h  == out[1]
           tz == html_args.tz
       IN  /\ h.tpl = "START_HTML"
           /\ h.args[1] = BeforeComma(tz)
           /\ ("offset:" \in Range(h.args[2])) <=> (Commas(tz) > 0)
           /\ Commas(tz) = 1 =>
                 IsSuffix(<<"offset:">> \o SubSeq(tz, Len(BeforeComma(tz)) + 2, Len(tz)),
                          h.args[2])
           /\ tz = <<"UTC", ",", "3600">> =>
                 /\ h.args[1] = <<"UTC">>
                 /\ h.args[2] \in { <<"offset:", "3600">>,
                                    <<"show:21", ",", "offset:", "3600">> }
           /\ h.args[3] = html_args.server
           /\ \A k \in 2..Len(out) :
                 /\ out[k].tpl # "START_HTML"
                 /\ out[k].tpl = "END_HTML" => (k = Len(out) /\ out[k-1].tpl = "END_SVG")

C10_Witness ==
    /\ pc = "done"
    /\ html_args.tz = <<"UTC", ",", "3600">>
    /\ out[1].args = << <<"UTC">>, <<"offset:", "3600">>, D_server >>
    /\ out[Len(out)].tpl = "END_HTML"
====
